---- MODULE Spec2Model ----
(***************************************************************************)
(* TimeSeriesStatisticsManager (src/lib/index.ts): a readiness gate around *)
(* table provisioning, per-partition counter updates and range queries.    *)
(*                                                                         *)
(* Strings are sequences of tokens; the token "#" is the separator         *)
(* character, every other token is a run of characters without "#".        *)
(* Times are integers; moment() and Date read a number as milliseconds.    *)
(***************************************************************************)
EXTENDS Integers, Sequences, FiniteSets, Bags, TLC

(* ------------------------------------------------------------------ *)
(* Bounds of the model                                                  *)
(* ------------------------------------------------------------------ *)
\* the largest latency (ms) of one DescribeTable round trip
MaxLatencyMs == 400
\* addStatistic calls begun in one behaviour
MaxAdds == 2

(* ------------------------------------------------------------------ *)
(* Program constants                                                    *)
(* ------------------------------------------------------------------ *)
WaitTimeoutMs == 6000
PollIntervalMs == 1000
MinuteInterval == 60

Callers == {"c1", "c2"}

\* values a rejected store call can carry; "undefined" and "zero" are falsy
RNF == "ResourceNotFoundException"
ThrownValues == {"ServiceError", "undefined", "zero"}
Nullish(e) == e = "undefined"
Truthy(e) == e \notin {"undefined", "zero"}

(* ------------------------------------------------------------------ *)
(* Time partitions                                                      *)
(* ------------------------------------------------------------------ *)
timePartitionsDefault ==
    << [name |-> <<"minute">>, format |-> "YYYY-MM-DDTHH:mm:00.000Z", interval |-> MinuteInterval],
       [name |-> <<"hour">>,   format |-> "YYYY-MM-DDTHH:00:00.000Z", interval |-> 60 * 60],
       [name |-> <<"day">>,    format |-> "YYYY-MM-DDT00:00:00.000Z", interval |-> 60 * 60 * 24],
       [name |-> <<"month">>,  format |-> "YYYY-MM-01T00:00:00.000Z", interval |-> 60 * 60 * 24 * 30],
       [name |-> <<"year">>,   format |-> "YYYY-01-01T00:00:00.000Z", interval |-> 60 * 60 * 24 * 365] >>

testTimePartitions ==
    << [name |-> <<"minute">>, format |-> "YYYY-MM-DDTHH:mm:00.000Z", interval |-> MinuteInterval],
       [name |-> <<"hour">>,   format |-> "YYYY-MM-DDTHH:00:00.000Z", interval |-> 60 * 60] >>

(* ------------------------------------------------------------------ *)
(* Calendar arithmetic of moment(ts).utc().format(f) and new Date(s)    *)
(* ------------------------------------------------------------------ *)
MsPerDay == 24 * 60 * 60 * 1000

\* civil date of a day number counted from 1970-01-01 (proleptic Gregorian)
CivilFromDays[days \in Int] ==
    LET z   == days + 719468
        era == z \div 146097
        doe == z - era * 146097
        yoe == (doe - (doe \div 1460) + (doe \div 36524) - (doe \div 146096)) \div 365
        doy == doe - (365 * yoe + (yoe \div 4) - (yoe \div 100))
        mp  == (5 * doy + 2) \div 153
        d   == doy - ((153 * mp + 2) \div 5) + 1
        m   == IF mp < 10 THEN mp + 3 ELSE mp - 9
        y   == yoe + era * 400 + (IF m <= 2 THEN 1 ELSE 0)
    IN  [Y |-> y, M |-> m, D |-> d]

\* day number of a civil date <<year, month, day>>
DaysFromCivil[ymd \in Int \X Int \X Int] ==
    LET y   == IF ymd[2] <= 2 THEN ymd[1] - 1 ELSE ymd[1]
        era == y \div 400
        yoe == y - era * 400
        mp  == IF ymd[2] > 2 THEN ymd[2] - 3 ELSE ymd[2] + 9
        doy == ((153 * mp + 2) \div 5) + ymd[3] - 1
        doe == yoe * 365 + (yoe \div 4) - (yoe \div 100) + doy
    IN  era * 146097 + doe - 719468

\* the broken-down UTC time of an epoch-millisecond value
UtcFields[ms \in Int] ==
    LET c   == CivilFromDays[ms \div MsPerDay]
        rem == ms % MsPerDay
    IN  [Y |-> c.Y, M |-> c.M, D |-> c.D,
         h |-> rem \div 3600000, m |-> (rem % 3600000) \div 60000,
         s |-> (rem % 60000) \div 1000, ms |-> rem % 1000, offset |-> 0]

\* moment's format: the tokens YYYY MM DD HH mm are filled from the date,
\* the digits written in the format string are copied as they stand, and
\* the token Z prints the offset, +00:00 in UTC mode
Format(ms, format) ==
    CASE format = "YYYY-MM-DDTHH:mm:00.000Z" ->
             [UtcFields[ms] EXCEPT !.s = 0, !.ms = 0]
      [] format = "YYYY-MM-DDTHH:00:00.000Z" ->
             [UtcFields[ms] EXCEPT !.m = 0, !.s = 0, !.ms = 0]
      [] format = "YYYY-MM-DDT00:00:00.000Z" ->
             [UtcFields[ms] EXCEPT !.h = 0, !.m = 0, !.s = 0, !.ms = 0]
      [] format = "YYYY-MM-01T00:00:00.000Z" ->
             [UtcFields[ms] EXCEPT !.D = 1, !.h = 0, !.m = 0, !.s = 0, !.ms = 0]
      [] format = "YYYY-01-01T00:00:00.000Z" ->
             [UtcFields[ms] EXCEPT !.M = 1, !.D = 1, !.h = 0, !.m = 0, !.s = 0, !.ms = 0]

\* new Date(isoString).getTime()
DateGetTime(f) ==
    (((DaysFromCivil[<<f.Y, f.M, f.D>>] * 24 + f.h) * 60 + f.m - f.offset) * 60 + f.s) * 1000 + f.ms

\* Date.prototype.toISOString: the UTC fields, offset written as Z
toISOString(ms) == UtcFields[ms]

getTimePartitionValue(timestamp, partition) == Format(timestamp, partition.format)

\* the range key addStatistic writes for a timestamp in a partition
TimePartitionKey(timestamp, partition) ==
    DateGetTime(getTimePartitionValue(timestamp, partition))

(* ------------------------------------------------------------------ *)
(* Keys                                                                 *)
(* ------------------------------------------------------------------ *)
createTopicPeriod(topic, period) == topic \o <<"#">> \o period

\* String.prototype.split("#"): the pieces between separators
RECURSIVE SplitFrom(_, _, _)
SplitFrom(str, i, piece) ==
    IF i > Len(str) THEN <<piece>>
    ELSE IF str[i] = "#" THEN <<piece>> \o SplitFrom(str, i + 1, <<>>)
    ELSE SplitFrom(str, i + 1, Append(piece, str[i]))

Split(str) == SplitFrom(str, 1, <<>>)

Floor(x, interval) == (x \div interval) * interval

(* ------------------------------------------------------------------ *)
(* State                                                                *)
(* ------------------------------------------------------------------ *)
VARIABLES
    state,            \* this.state
    onReadyPromises,  \* this.onReadyPromises: the callers whose callback is queued
    timePartitions,   \* this.timePartitions
    provPc,           \* where the constructor's promise chain stands
    provErr,          \* the value the chain was rejected with
    now,              \* Date.now() in waitUntilTableExists, counted from its startTime
    endTime,          \* waitUntilTableExists' deadline (0 outside the wait)
    tableStatus,      \* the table in the store: ABSENT or its TableStatus
    items,            \* the table's items
    pc,               \* per caller: where its call stands
    call,             \* per caller: the operation and its arguments
    gate,             \* per caller: the promise its onReady() returned
    idx,              \* per caller: addStatistic's position in the partition list
    subs,             \* per caller: the getStatisticsPeriod calls it runs
    outcome,          \* per caller: the promise the call returned
    sent,             \* history: commands sent to the store, with this.state then
    settles,          \* history: per caller, times its queued callback was invoked
    addLog,           \* history: the addStatistic calls begun
    addFailed,        \* history: some addStatistic call was rejected
    dirty             \* history: per caller, an item changed since its getStatistics began

vars == <<state, onReadyPromises, timePartitions, provPc, provErr, now, endTime,
          tableStatus, items, pc, call, gate, idx, subs, outcome,
          sent, settles, addLog, addFailed, dirty>>

NoCall == [op |-> "none"]
NoPromise == [st |-> "none", val |-> "undefined"]
Pending == [st |-> "pending", val |-> "undefined"]
Fulfilled(v) == [st |-> "fulfilled", val |-> v]
Rejected(e) == [st |-> "rejected", val |-> e]

InitCallers ==
    /\ pc = [c \in Callers |-> "idle"]
    /\ call = [c \in Callers |-> NoCall]
    /\ gate = [c \in Callers |-> NoPromise]
    /\ idx = [c \in Callers |-> 0]
    /\ subs = [c \in Callers |-> <<>>]
    /\ outcome = [c \in Callers |-> NoPromise]
    /\ sent = {}
    /\ settles = [c \in Callers |-> 0]
    /\ addLog = EmptyBag
    /\ addFailed = FALSE
    /\ dirty = [c \in Callers |-> FALSE]

\* the instance as the constructor leaves it (lines 59-93): the promise chain
\* is scheduled, nothing has run; the table may already exist in the store
Init ==
    /\ state = "INITIALIZING"
    /\ onReadyPromises = <<>>
    /\ timePartitions = testTimePartitions
    /\ provPc = "start"
    /\ provErr = "undefined"
    /\ now = 0
    /\ endTime = 0
    /\ tableStatus \in {"ABSENT", "CREATING", "ACTIVE", "DELETING"}
    /\ items = {}
    /\ InitCallers

(* ------------------------------------------------------------------ *)
(* Provisioning: constructor chain, createTableIfNotExists,             *)
(* waitUntilTableExists                                                 *)
(* ------------------------------------------------------------------ *)
Latencies == {0, MaxLatencyMs}

\* what a step of the chain or of the store leaves alone on the callers' side
ProvFrame == UNCHANGED <<timePartitions, items, pc, call, gate, idx, subs, outcome,
                         sent, settles, addLog, addFailed, dirty>>

\* Promise.resolve().then(() => this.createTableIfNotExists()): the first
\* DescribeTable is sent
StartProvisioning ==
    /\ provPc = "start"
    /\ provPc' = "describe"
    /\ UNCHANGED <<state, onReadyPromises, provErr, now, endTime, tableStatus>>
    /\ ProvFrame

\* what createTableIfNotExists does with a DescribeTable rejection e
\* (lines 155-183): reading e.name of undefined throws a TypeError
DescribeCatch(e) ==
    IF Nullish(e) THEN [pc |-> "rejected", err |-> "TypeError"]
    ELSE IF e = RNF THEN [pc |-> "create", err |-> "undefined"]
    ELSE [pc |-> "rejected", err |-> e]

\* the first DescribeTable returns: the table exists, in whatever status
DescribeOk ==
    /\ provPc = "describe"
    /\ tableStatus # "ABSENT"
    /\ provPc' = "fulfilled"
    /\ UNCHANGED <<state, onReadyPromises, provErr, now, endTime, tableStatus>>
    /\ ProvFrame

\* the first DescribeTable is rejected
DescribeFail ==
    /\ provPc = "describe"
    /\ \E e \in (IF tableStatus = "ABSENT" THEN {RNF} ELSE {}) \cup ThrownValues :
          /\ provPc' = DescribeCatch(e).pc
          /\ provErr' = DescribeCatch(e).err
    /\ UNCHANGED <<state, onReadyPromises, now, endTime, tableStatus>>
    /\ ProvFrame

LoopContinues(t, deadline) == t < deadline

\* CreateTable returns; waitUntilTableExists() starts: the deadline is set,
\* the loop condition is read and the first poll is sent (lines 173-135)
CreateOk ==
    /\ provPc = "create"
    /\ tableStatus' = IF tableStatus = "ABSENT" THEN "CREATING" ELSE tableStatus
    /\ IF LoopContinues(now, now + WaitTimeoutMs)
          THEN provPc' = "poll" /\ provErr' = provErr /\ endTime' = now + WaitTimeoutMs
          ELSE provPc' = "rejected" /\ provErr' = "TimedOutError" /\ endTime' = 0
    /\ UNCHANGED <<state, onReadyPromises, now>>
    /\ ProvFrame

\* CreateTable is rejected, with any value
CreateFail ==
    /\ provPc = "create"
    /\ \E e \in ThrownValues :
          /\ provPc' = "rejected"
          /\ provErr' = e
    /\ UNCHANGED <<state, onReadyPromises, now, endTime, tableStatus>>
    /\ ProvFrame

\* a faulty variant: the loop has no break, a table being deleted is polled on
PollStepNoBreak(status) ==
    IF status = "ACTIVE" THEN "fulfilled" ELSE "sleep"

\* what one poll's answer does to the loop (lines 137-146)
PollStep(status) ==
    IF status = "ACTIVE" THEN "fulfilled"
    ELSE IF status \in {"DELETING", "INACCESSIBLE_ENCRYPTION_CREDENTIALS"} THEN "rejected"
    ELSE "sleep"

\* a poll's DescribeTable returns after some latency
PollOk ==
    /\ provPc = "poll"
    /\ tableStatus # "ABSENT"
    /\ provPc' = PollStep(tableStatus)
    /\ provErr' = IF PollStep(tableStatus) = "rejected" THEN "TimedOutError" ELSE provErr
    /\ IF PollStep(tableStatus) = "sleep"
          THEN (\E d \in Latencies : now' = now + d) /\ endTime' = endTime
          ELSE now' = 0 /\ endTime' = 0
    /\ UNCHANGED <<state, onReadyPromises, tableStatus>>
    /\ ProvFrame

\* a poll's DescribeTable is rejected: the catch block sleeps
PollFail ==
    /\ provPc = "poll"
    /\ \E d \in Latencies : now' = now + d
    /\ provPc' = "sleep"
    /\ UNCHANGED <<state, onReadyPromises, provErr, endTime, tableStatus>>
    /\ ProvFrame

\* a faulty variant: the timer is not awaited, the loop goes round at once
SleepSkipped(t) == t

\* Date.now() after await new Promise(resolve => setTimeout(resolve, 1000))
AfterSleep(t) == t + PollIntervalMs

\* the 1000 ms timer fires; the loop condition is read again
PollWake ==
    /\ provPc = "sleep"
    /\ IF LoopContinues(AfterSleep(now), endTime)
          THEN /\ provPc' = "poll" /\ provErr' = provErr
               /\ now' = AfterSleep(now) /\ endTime' = endTime
          ELSE /\ provPc' = "rejected" /\ provErr' = "TimedOutError"
               /\ now' = 0 /\ endTime' = 0
    /\ UNCHANGED <<state, onReadyPromises, tableStatus>>
    /\ ProvFrame

\* the promise a queued callback settles: (error) => error ? reject(error) : resolve()
CallbackResult(error) == IF Truthy(error) THEN Rejected(error) ELSE Fulfilled("undefined")

\* resolveReadyPromises / rejectReadyPromises: every queued callback is
\* called with the argument, in order
SettleAll(queue, error) ==
    [c \in Callers |->
        IF \E i \in 1..Len(queue) : queue[i] = c /\ gate[c].st = "pending"
           THEN CallbackResult(error) ELSE gate[c]]

CountIn(queue, c) == Cardinality({i \in 1..Len(queue) : queue[i] = c})

\* .then(() => { this.state = 'INITIALIZED'; this.resolveReadyPromises(); })
Initialized ==
    /\ provPc = "fulfilled"
    /\ state' = "INITIALIZED"
    /\ gate' = SettleAll(onReadyPromises, "undefined")
    /\ settles' = [c \in Callers |-> settles[c] + CountIn(onReadyPromises, c)]
    /\ onReadyPromises' = <<>>
    /\ provPc' = "done"
    /\ UNCHANGED <<timePartitions, provErr, now, endTime, tableStatus, items,
                   pc, call, idx, subs, outcome, sent, addLog, addFailed, dirty>>

\* .catch((error) => { this.state = "FAIL"; this.rejectReadyPromises(error); })
Failed ==
    /\ provPc = "rejected"
    /\ state' = "FAIL"
    /\ gate' = SettleAll(onReadyPromises, provErr)
    /\ settles' = [c \in Callers |-> settles[c] + CountIn(onReadyPromises, c)]
    /\ onReadyPromises' = <<>>
    /\ provPc' = "done"
    /\ UNCHANGED <<timePartitions, provErr, now, endTime, tableStatus, items,
                   pc, call, idx, subs, outcome, sent, addLog, addFailed, dirty>>

\* the store's side: a table being created becomes active; while the
\* instance is provisioning, a table is deleted by someone else or loses its
\* encryption key
TableActivates ==
    /\ tableStatus = "CREATING"
    /\ tableStatus' = "ACTIVE"
    /\ UNCHANGED <<state, onReadyPromises, provPc, provErr, now, endTime>>
    /\ ProvFrame

TableBreaks ==
    /\ tableStatus \in {"CREATING", "ACTIVE"}
    /\ provPc # "done"
    /\ tableStatus' \in {"DELETING", "INACCESSIBLE_ENCRYPTION_CREDENTIALS"}
    /\ UNCHANGED <<state, onReadyPromises, provPc, provErr, now, endTime>>
    /\ ProvFrame

TableGone ==
    /\ tableStatus = "DELETING"
    /\ provPc # "done"
    /\ tableStatus' = "ABSENT"
    /\ UNCHANGED <<state, onReadyPromises, provPc, provErr, now, endTime>>
    /\ ProvFrame

Provision ==
    \/ StartProvisioning \/ DescribeOk \/ DescribeFail \/ CreateOk \/ CreateFail
    \/ PollOk \/ PollFail \/ PollWake \/ Initialized \/ Failed
    \/ TableActivates \/ TableBreaks \/ TableGone

(* ------------------------------------------------------------------ *)
(* The public operations                                                *)
(* ------------------------------------------------------------------ *)
CallFrame == UNCHANGED <<state, timePartitions, provPc, provErr, now, endTime, tableStatus>>

\* onReady()'s executor (lines 96-110): the promise it leaves
onReady ==
    IF state = "INITIALIZED" THEN Fulfilled("undefined")
    ELSE IF state = "FAIL" THEN Rejected("undefined")
    ELSE Pending

\* a call begins: its first statement is onReady(), which may queue a callback
Begin(c, theCall) ==
    /\ pc[c] = "idle"
    /\ pc' = [pc EXCEPT ![c] = "gate"]
    /\ call' = [call EXCEPT ![c] = theCall]
    /\ gate' = [gate EXCEPT ![c] = onReady]
    /\ onReadyPromises' = IF onReady.st = "pending" THEN Append(onReadyPromises, c)
                          ELSE onReadyPromises
    /\ outcome' = [outcome EXCEPT ![c] = Pending]
    /\ dirty' = [dirty EXCEPT ![c] = FALSE]
    /\ UNCHANGED <<items, idx, subs, sent, settles, addFailed>>
    /\ CallFrame

BeginOnReady(c) ==
    /\ Begin(c, [op |-> "onReady"])
    /\ UNCHANGED addLog

BeginAdd(c, topic, timestamp, amount) ==
    /\ BagCardinality(addLog) < MaxAdds
    /\ Begin(c, [op |-> "addStatistic", topic |-> topic, timestamp |-> timestamp,
                 amount |-> amount])
    /\ addLog' = addLog (+) SetToBag({[topic |-> topic, timestamp |-> timestamp,
                                       amount |-> amount]})

BeginGetPeriod(c, topic, period, startTime, endT) ==
    /\ Begin(c, [op |-> "getStatisticsPeriod", topic |-> topic, period |-> period,
                 startTime |-> startTime, endTime |-> endT])
    /\ UNCHANGED addLog

BeginGetAll(c, topic, startTime, endT) ==
    /\ Begin(c, [op |-> "getStatistics", topic |-> topic,
                 startTime |-> startTime, endTime |-> endT])
    /\ UNCHANGED addLog

\* a command goes to the store; the history keeps this.state at that moment
Send(kind) == sent \cup {[kind |-> kind, state |-> state]}

\* await this.onReady() throws: the call is rejected with the gate's value
GateRejected(c) ==
    /\ pc[c] = "gate"
    /\ gate[c].st = "rejected"
    /\ pc' = [pc EXCEPT ![c] = "done"]
    /\ outcome' = [outcome EXCEPT ![c] = Rejected(gate[c].val)]
    /\ addFailed' = (addFailed \/ call[c].op = "addStatistic")
    /\ UNCHANGED <<onReadyPromises, items, call, gate, idx, subs, sent, settles, addLog, dirty>>
    /\ CallFrame

\* a plain onReady() call: its promise is the gate's
OnReadyDone(c) ==
    /\ pc[c] = "gate"
    /\ gate[c].st = "fulfilled"
    /\ call[c].op = "onReady"
    /\ pc' = [pc EXCEPT ![c] = "done"]
    /\ outcome' = [outcome EXCEPT ![c] = Fulfilled("undefined")]
    /\ UNCHANGED <<onReadyPromises, items, call, gate, idx, subs, sent, settles,
                   addLog, addFailed, dirty>>
    /\ CallFrame

(* ---------------- addStatistic (lines 201-235) ---------------- *)
\* ":incr": amount ? amount : 1, the argument being <<>> when omitted
Increment(amount) ==
    IF amount = <<>> THEN 1
    ELSE IF amount[1] = 0 THEN 1
    ELSE amount[1]

\* the UpdateCommand of one loop iteration
updateParams(topic, timestamp, amount, partition) ==
    LET timePartition == TimePartitionKey(timestamp, partition)
    IN  [topic_period |-> createTopicPeriod(topic, partition.name),
         time_partition |-> timePartition,
         incr |-> Increment(amount),
         time |-> toISOString(timePartition)]

\* the store's UpdateItem, "ADD #count :incr SET #timestamp = :time":
\* one atomic read-modify-write of the keyed item, created when absent
UpdateItem(table, u) ==
    LET same(it) == it.topic_period = u.topic_period /\ it.time_partition = u.time_partition
        old == {it \in table : same(it)}
        base == IF old = {} THEN 0 ELSE (CHOOSE it \in old : TRUE).count
    IN  (table \ old) \cup {[topic_period |-> u.topic_period,
                             time_partition |-> u.time_partition,
                             count |-> base + u.incr,
                             time |-> u.time]}

\* the gate opened: the loop's first UpdateCommand is sent
AddStart(c) ==
    /\ pc[c] = "gate"
    /\ gate[c].st = "fulfilled"
    /\ call[c].op = "addStatistic"
    /\ pc' = [pc EXCEPT ![c] = "update"]
    /\ idx' = [idx EXCEPT ![c] = 1]
    /\ sent' = Send("Update")
    /\ UNCHANGED <<onReadyPromises, items, call, gate, subs, outcome, settles,
                   addLog, addFailed, dirty>>
    /\ CallFrame

\* the store applies the update in flight and answers; the loop goes on to
\* the next partition, whose UpdateCommand it sends, or the call returns
UpdateOk(c) ==
    /\ pc[c] = "update"
    /\ tableStatus = "ACTIVE"
    /\ items' = UpdateItem(items, updateParams(call[c].topic, call[c].timestamp,
                                               call[c].amount, timePartitions[idx[c]]))
    /\ dirty' = [d \in Callers |-> dirty[d] \/ call[d].op = "getStatistics"]
    /\ IF idx[c] < Len(timePartitions)
          THEN /\ idx' = [idx EXCEPT ![c] = idx[c] + 1]
               /\ sent' = Send("Update")
               /\ UNCHANGED <<pc, outcome>>
          ELSE /\ pc' = [pc EXCEPT ![c] = "done"]
               /\ outcome' = [outcome EXCEPT ![c] = Fulfilled("undefined")]
               /\ UNCHANGED <<idx, sent>>
    /\ UNCHANGED <<onReadyPromises, call, gate, subs, settles, addLog, addFailed>>
    /\ CallFrame

\* a faulty variant: the catch block swallows the error and the loop goes on
UpdateFailSwallowed(c) ==
    /\ pc[c] = "update"
    /\ IF idx[c] < Len(timePartitions)
          THEN /\ idx' = [idx EXCEPT ![c] = idx[c] + 1]
               /\ sent' = Send("Update")
               /\ UNCHANGED <<pc, outcome>>
          ELSE /\ pc' = [pc EXCEPT ![c] = "done"]
               /\ outcome' = [outcome EXCEPT ![c] = Fulfilled("undefined")]
               /\ UNCHANGED <<idx, sent>>
    /\ UNCHANGED <<onReadyPromises, items, call, gate, subs, settles, addLog, addFailed, dirty>>
    /\ CallFrame

\* the store rejects the update in flight: the call rethrows
UpdateFail(c) ==
    /\ pc[c] = "update"
    /\ pc' = [pc EXCEPT ![c] = "done"]
    /\ outcome' = [outcome EXCEPT ![c] = Rejected("StoreError")]
    /\ addFailed' = TRUE
    /\ UNCHANGED <<onReadyPromises, items, call, gate, idx, subs, sent, settles, addLog, dirty>>
    /\ CallFrame

(* ---------------- getStatisticsPeriod (lines 237-274) ---------------- *)
\* this.timePartitions.find(tp => tp.name === period): an index, 0 for undefined
getTimePartition(period) ==
    LET found == {i \in 1..Len(timePartitions) : timePartitions[i].name = period}
    IN  IF found = {} THEN 0 ELSE CHOOSE i \in found : \A j \in found : i <= j

\* the QueryCommand's values
queryParams(topic, period, startTime, endT) ==
    LET partition == timePartitions[getTimePartition(period)]
    IN  [topic_period |-> createTopicPeriod(topic, period),
         startTime |-> Floor(startTime, partition.interval),
         endTime |-> Floor(endT, partition.interval)]

\* a faulty variant: the range taken half open
MatchesHalfOpen(it, q) ==
    /\ it.topic_period = q.topic_period
    /\ q.startTime <= it.time_partition
    /\ it.time_partition < q.endTime

\* the store's condition "topic_period = :topic_period AND time_partition
\* BETWEEN :startTime AND :endTime"
Matches(it, q) ==
    /\ it.topic_period = q.topic_period
    /\ q.startTime <= it.time_partition
    /\ it.time_partition <= q.endTime

\* a Query answers with the matching items in ascending range-key order
RECURSIVE Ascending(_)
Ascending(set) ==
    IF set = {} THEN <<>>
    ELSE LET first == CHOOSE it \in set : \A o \in set : it.time_partition <= o.time_partition
         IN  <<first>> \o Ascending(set \ {first})

Query(table, q) == Ascending({it \in table : Matches(it, q)})

\* const [topic, period] = item.topic_period.split("#") and the Statistic built
ToStatistic(item) ==
    LET parts == Split(item.topic_period)
    IN  [topic |-> parts[1],
         period |-> IF Len(parts) >= 2 THEN parts[2] ELSE <<"undefined">>,
         count |-> item.count,
         time_partition |-> item.time_partition]

MapItems(response) == [i \in 1..Len(response) |-> ToStatistic(response[i])]

\* the gate opened: the period is looked up; reading .interval of undefined
\* throws a TypeError, otherwise the QueryCommand is sent
PeriodStart(c) ==
    /\ pc[c] = "gate"
    /\ gate[c].st = "fulfilled"
    /\ call[c].op = "getStatisticsPeriod"
    /\ IF getTimePartition(call[c].period) = 0
          THEN /\ pc' = [pc EXCEPT ![c] = "done"]
               /\ outcome' = [outcome EXCEPT ![c] = Rejected("TypeError")]
               /\ UNCHANGED <<subs, sent>>
          ELSE /\ pc' = [pc EXCEPT ![c] = "query"]
               /\ subs' = [subs EXCEPT ![c] =
                     << [st |-> "sent",
                         q |-> queryParams(call[c].topic, call[c].period,
                                           call[c].startTime, call[c].endTime),
                         res |-> <<>>] >>]
               /\ sent' = Send("Query")
               /\ UNCHANGED outcome
    /\ UNCHANGED <<onReadyPromises, items, call, gate, idx, settles, addLog, addFailed, dirty>>
    /\ CallFrame

(* ---------------- getStatistics (lines 276-285) ---------------- *)
\* the gate opened: getStatisticsPeriod is called for every partition, and
\* each of these calls runs onReady() before it awaits
AllStart(c) ==
    /\ pc[c] = "gate"
    /\ gate[c].st = "fulfilled"
    /\ call[c].op = "getStatistics"
    /\ pc' = [pc EXCEPT ![c] = "query"]
    /\ subs' = [subs EXCEPT ![c] =
          [i \in 1..Len(timePartitions) |->
              [st |-> IF onReady.st = "fulfilled" THEN "ready" ELSE "refused",
               q |-> queryParams(call[c].topic, timePartitions[i].name,
                                 call[c].startTime, call[c].endTime),
               res |-> <<>>]]]
    /\ UNCHANGED <<onReadyPromises, items, call, gate, idx, outcome, sent, settles,
                   addLog, addFailed, dirty>>
    /\ CallFrame

\* an inner getStatisticsPeriod call passes its own gate and sends its query
SubSend(c, i) ==
    /\ pc[c] = "query"
    /\ i \in DOMAIN subs[c]
    /\ subs[c][i].st = "ready"
    /\ subs' = [subs EXCEPT ![c][i].st = "sent"]
    /\ sent' = Send("Query")
    /\ UNCHANGED <<onReadyPromises, items, pc, call, gate, idx, outcome, settles,
                   addLog, addFailed, dirty>>
    /\ CallFrame

\* the call's promise once sub-call i has ended: getStatisticsPeriod returns its
\* own list; getStatistics' Promise.all waits for all and returns results.flat()
RECURSIVE Flat(_)
Flat(lists) == IF lists = <<>> THEN <<>> ELSE Head(lists) \o Flat(Tail(lists))

\* a faulty variant: the first partition's list returned instead of results.flat()
GatherFirst(results) == results[1].res

Gather(results) == Flat([i \in 1..Len(results) |-> results[i].res])

AllOk(results) == \A i \in 1..Len(results) : results[i].st = "ok"

\* an inner call whose onReady() was rejected: Promise.all rejects with it
SubRefused(c, i) ==
    /\ pc[c] = "query"
    /\ i \in DOMAIN subs[c]
    /\ subs[c][i].st = "refused"
    /\ subs' = [subs EXCEPT ![c][i].st = "err"]
    /\ outcome' = [outcome EXCEPT ![c] =
          IF outcome[c].st = "pending" THEN Rejected("undefined") ELSE outcome[c]]
    /\ pc' = [pc EXCEPT ![c] =
          IF \A j \in DOMAIN subs[c] : subs'[c][j].st \in {"ok", "err"} THEN "done" ELSE "query"]
    /\ UNCHANGED <<onReadyPromises, items, call, gate, idx, sent, settles,
                   addLog, addFailed, dirty>>
    /\ CallFrame

\* the store answers query i with its items; the handler maps them
QueryOk(c, i) ==
    /\ pc[c] = "query"
    /\ i \in DOMAIN subs[c]
    /\ subs[c][i].st = "sent"
    /\ tableStatus = "ACTIVE"
    /\ subs' = [subs EXCEPT ![c][i] =
          [st |-> "ok", q |-> subs[c][i].q, res |-> MapItems(Query(items, subs[c][i].q))]]
    /\ outcome' = [outcome EXCEPT ![c] =
          IF outcome[c].st = "pending" /\ AllOk(subs'[c])
             THEN Fulfilled(Gather(subs'[c])) ELSE outcome[c]]
    /\ pc' = [pc EXCEPT ![c] =
          IF \A j \in DOMAIN subs[c] : subs'[c][j].st \in {"ok", "err"} THEN "done" ELSE "query"]
    /\ UNCHANGED <<onReadyPromises, items, call, gate, idx, sent, settles,
                   addLog, addFailed, dirty>>
    /\ CallFrame

\* the store rejects query i: the handler rethrows, and so does Promise.all
QueryFail(c, i) ==
    /\ pc[c] = "query"
    /\ i \in DOMAIN subs[c]
    /\ subs[c][i].st = "sent"
    /\ subs' = [subs EXCEPT ![c][i].st = "err"]
    /\ outcome' = [outcome EXCEPT ![c] =
          IF outcome[c].st = "pending" THEN Rejected("StoreError") ELSE outcome[c]]
    /\ pc' = [pc EXCEPT ![c] =
          IF \A j \in DOMAIN subs[c] : subs'[c][j].st \in {"ok", "err"} THEN "done" ELSE "query"]
    /\ UNCHANGED <<onReadyPromises, items, call, gate, idx, sent, settles,
                   addLog, addFailed, dirty>>
    /\ CallFrame

\* the caller has its answer and may call again
Return(c) ==
    /\ pc[c] = "done"
    /\ pc' = [pc EXCEPT ![c] = "idle"]
    /\ call' = [call EXCEPT ![c] = NoCall]
    /\ gate' = [gate EXCEPT ![c] = NoPromise]
    /\ idx' = [idx EXCEPT ![c] = 0]
    /\ subs' = [subs EXCEPT ![c] = <<>>]
    /\ outcome' = [outcome EXCEPT ![c] = NoPromise]
    /\ settles' = [settles EXCEPT ![c] = 0]
    /\ dirty' = [dirty EXCEPT ![c] = FALSE]
    /\ UNCHANGED <<onReadyPromises, items, sent, addLog, addFailed>>
    /\ CallFrame

\* the steps of a call once begun
Continue(c) ==
    \/ GateRejected(c) \/ OnReadyDone(c)
    \/ AddStart(c) \/ UpdateOk(c) \/ UpdateFail(c)
    \/ PeriodStart(c) \/ AllStart(c)
    \/ \E i \in 1..Len(timePartitions) : SubSend(c, i)
    \/ \E i \in 1..Len(timePartitions) : SubRefused(c, i)
    \/ \E i \in 1..Len(timePartitions) : QueryOk(c, i)
    \/ \E i \in 1..Len(timePartitions) : QueryFail(c, i)
    \/ Return(c)

(* ------------------------------------------------------------------ *)
(* Spec: the instance from construction on, with a few callers          *)
(* ------------------------------------------------------------------ *)
Topic1 == <<"t1">>
Minute == <<"minute">>
Week == <<"week">>

Next ==
    \/ Provision
    \/ \E c \in Callers :
          \/ BeginOnReady(c)
          \/ BeginAdd(c, Topic1, 90, <<>>)
          \/ BeginGetPeriod(c, Topic1, Minute, 0, 119)
          \/ BeginGetAll(c, Topic1, 0, 119)
          \/ Continue(c)

Spec == Init /\ [][Next]_vars

(* ------------------------------------------------------------------ *)
(* A ready instance over an empty table: the state Spec reaches when    *)
(* provisioning has succeeded and no call has been made                 *)
(* ------------------------------------------------------------------ *)
InitReady ==
    /\ state = "INITIALIZED"
    /\ onReadyPromises = <<>>
    /\ timePartitions = testTimePartitions
    /\ provPc = "done"
    /\ provErr = "undefined"
    /\ now = 0
    /\ endTime = 0
    /\ tableStatus = "ACTIVE"
    /\ items = {}
    /\ InitCallers

Hour == <<"hour">>
\* an amount argument: <<>> when omitted, <<n>> when n is passed
Amounts == {<<>>, <<0>>, <<2>>}

\* SpecWrite: concurrent writers, and readers asking as the tests ask
WriteTimestamps == {30, 90, 60030}
WriteRanges == {<<60, 119>>, <<0, 3599>>}

NextWrite ==
    \E c \in Callers :
       \/ \E t \in WriteTimestamps, a \in Amounts : BeginAdd(c, Topic1, t, a)
       \/ \E p \in {Minute, Hour}, r \in WriteRanges : BeginGetPeriod(c, Topic1, p, r[1], r[2])
       \/ AddStart(c) \/ UpdateOk(c) \/ UpdateFail(c)
       \/ PeriodStart(c)
       \/ QueryOk(c, 1)
       \/ QueryFail(c, 1)
       \/ Return(c)

SpecWrite == InitReady /\ [][NextWrite]_vars

\* SpecRead: a few writes, and readers asking for any period and range
TopicHash == <<"a", "#", "b">>
ReadWrites == {<<Topic1, 90>>, <<Topic1, 60030>>}
ReadRanges == {<<60, 119>>, <<0, 60059>>}

NextRead ==
    \E c \in Callers :
       \/ \E w \in ReadWrites : BeginAdd(c, w[1], w[2], <<>>)
       \/ \E p \in {Minute, Hour}, r \in ReadRanges : BeginGetPeriod(c, Topic1, p, r[1], r[2])
       \/ BeginGetPeriod(c, Topic1, Week, 60, 119)
       \/ \E r \in ReadRanges : BeginGetAll(c, Topic1, r[1], r[2])
       \/ AddStart(c) \/ UpdateOk(c) \/ UpdateFail(c)
       \/ PeriodStart(c) \/ AllStart(c)
       \/ \E i \in 1..Len(timePartitions) : SubSend(c, i)
       \/ \E i \in 1..Len(timePartitions) : QueryOk(c, i)
       \/ \E i \in 1..Len(timePartitions) : QueryFail(c, i)
       \/ Return(c)

SpecRead == InitReady /\ [][NextRead]_vars

(* ------------------------------------------------------------------ *)
(* Claims about writing and reading                                     *)
(* ------------------------------------------------------------------ *)
\* the partitions configured under a name
Configured(period) == {i \in 1..Len(timePartitions) : timePartitions[i].name = period}

\* caller c's getStatisticsPeriod is answered by the store in this step
PeriodAnswered(c) ==
    /\ call[c].op = "getStatisticsPeriod"
    /\ pc[c] = "query"
    /\ pc'[c] = "done"
    /\ outcome'[c].st = "fulfilled"

\* exactly one addStatistic(topic, T), amount omitted, has been made, and it succeeded
OneAddDone(topic, T) ==
    /\ addLog = SetToBag({[topic |-> topic, timestamp |-> T, amount |-> <<>>]})
    /\ ~addFailed
    /\ \A d \in Callers : call[d].op = "addStatistic" => pc[d] = "done"

\* C1 (as claimed): after one successful addStatistic(topic, T) on a ready
\* instance over an empty table, getStatisticsPeriod(topic, p.name, s, s + p.interval - 1)
\* with s = floor(T / p.interval) * p.interval returns exactly one Statistic,
\* with count 1, period p.name and time_partition s, for every configured p.
C1_WriteThenRead ==
    [][\A c \in Callers : \A T \in WriteTimestamps : \A i \in 1..Len(timePartitions) :
          LET p == timePartitions[i]
              s == (T \div p.interval) * p.interval
              r == outcome'[c].val
          IN  ( /\ PeriodAnswered(c)
                /\ OneAddDone(call[c].topic, T)
                /\ call[c].period = p.name
                /\ call[c].startTime = s
                /\ call[c].endTime = s + p.interval - 1 )
              => ( /\ Len(r) = 1
                   /\ r[1].count = 1
                   /\ r[1].period = p.name
                   /\ r[1].time_partition = s )]_vars

\* the amount a call asks to add: 1 when the argument is omitted
Asked(amount) == IF amount = <<>> THEN 1 ELSE amount[1]

RECURSIVE SumOver(_, _)
SumOver(set, f) ==
    IF set = {} THEN 0
    ELSE LET e == CHOOSE x \in set : TRUE IN f[e] + SumOver(set \ {e}, f)

\* the addStatistic calls made whose timestamp falls in the cell (topic#name, key)
CallsInto(i, topic, key) ==
    {e \in BagToSet(addLog) :
        e.topic = topic /\ TimePartitionKey(e.timestamp, timePartitions[i]) = key}

AllAddsDone ==
    /\ ~addFailed
    /\ \A d \in Callers : call[d].op = "addStatistic" => pc[d] = "done"

\* the count stored in a cell, 0 when the cell does not exist
StoredCount(topic_period, key) ==
    LET cell == {it \in items : it.topic_period = topic_period /\ it.time_partition = key}
    IN  IF cell = {} THEN 0 ELSE (CHOOSE it \in cell : TRUE).count

\* C2 (as claimed): once all addStatistic calls have completed successfully,
\* the count of every cell written equals the sum of the amounts of the calls
\* whose timestamps fall in that cell, however the calls were interleaved.
C2_NoLostUpdates ==
    AllAddsDone =>
        \A e \in BagToSet(addLog) : \A i \in 1..Len(timePartitions) :
            LET key == TimePartitionKey(e.timestamp, timePartitions[i])
                into == CallsInto(i, e.topic, key)
                amountOf == [x \in into |-> CopiesIn(x, addLog) * Asked(x.amount)]
            IN  StoredCount(e.topic \o <<"#">> \o timePartitions[i].name, key)
                    = SumOver(into, amountOf)

\* what does hold: the count is the sum of the increments the calls sent,
\* ":incr" being 1 for an amount of 0 (no update is lost)
NoLostIncrements ==
    AllAddsDone =>
        \A e \in BagToSet(addLog) : \A i \in 1..Len(timePartitions) :
            LET key == TimePartitionKey(e.timestamp, timePartitions[i])
                into == CallsInto(i, e.topic, key)
                sentBy == [x \in into |-> CopiesIn(x, addLog)
                                              * (IF x.amount \in {<<>>, <<0>>} THEN 1 ELSE x.amount[1])]
            IN  StoredCount(e.topic \o <<"#">> \o timePartitions[i].name, key)
                    = SumOver(into, sentBy)

\* the minute cell key of the UpdateCommand caller c has sent
MinuteKeyWritten(c) ==
    updateParams(call[c].topic, call[c].timestamp, call[c].amount,
                 timePartitions[CHOOSE i \in Configured(Minute) : TRUE]).time_partition

WroteMinute(c) == call[c].op = "addStatistic" /\ idx[c] >= 1

\* C3 (as claimed): two timestamps in epoch seconds get the same minute cell
\* key if and only if they lie in the same minute, floor(t1/60) = floor(t2/60).
C3_MinuteBucketing ==
    \A c, d \in Callers :
        (WroteMinute(c) /\ WroteMinute(d)) =>
            ( (MinuteKeyWritten(c) = MinuteKeyWritten(d))
              <=> (call[c].timestamp \div 60 = call[d].timestamp \div 60) )

\* the stored cells getStatisticsPeriod(topic, period, startTime, endTime) is to return
CellsInRange(k) ==
    LET interval == timePartitions[CHOOSE i \in Configured(k.period) : TRUE].interval
        lo == (k.startTime \div interval) * interval
        hi == (k.endTime \div interval) * interval
    IN  {it \in items : /\ it.topic_period = k.topic \o <<"#">> \o k.period
                        /\ lo <= it.time_partition
                        /\ it.time_partition <= hi}

OnePerCell(r, cells) ==
    /\ Len(r) = Cardinality(cells)
    /\ \A it \in cells :
          Cardinality({j \in 1..Len(r) : /\ r[j].count = it.count
                                         /\ r[j].time_partition = it.time_partition}) = 1

\* C4: for a configured period, getStatisticsPeriod returns exactly one
\* Statistic per stored cell with hash key topic#period and time_partition
\* between the aligned start and end, both inclusive, and nothing else: the
\* empty list when there is none. It is rejected only when the store fails.
C4_RangeQuery ==
    [][\A c \in Callers :
          ( /\ call[c].op = "getStatisticsPeriod"
            /\ Configured(call[c].period) # {}
            /\ pc[c] = "query"
            /\ pc'[c] = "done" )
          => IF outcome'[c].st = "fulfilled"
                THEN OnePerCell(outcome'[c].val, CellsInRange(call[c]))
                ELSE outcome'[c] = Rejected("StoreError")]_vars

\* a range query answered with the cells at both ends of its aligned range
C4_Witness ==
    \E c \in Callers :
        /\ call[c].op = "getStatisticsPeriod"
        /\ pc[c] = "done"
        /\ outcome[c].st = "fulfilled"
        /\ Len(outcome[c].val) = 2
        /\ outcome[c].val[1].time_partition = (call[c].startTime \div 60) * 60
        /\ outcome[c].val[2].time_partition = (call[c].endTime \div 60) * 60

SeqBag(seq) ==
    [x \in {seq[j] : j \in DOMAIN seq} |-> Cardinality({j \in DOMAIN seq : seq[j] = x})]

RECURSIVE BagSum(_, _)
BagSum(n, f) == IF n = 0 THEN EmptyBag ELSE BagSum(n - 1, f) (+) f[n]

\* C5: on a store not modified during the call, getStatistics returns the
\* results of getStatisticsPeriod for every configured partition, put
\* together as a multiset, whatever order the queries were answered in; it
\* is fulfilled only when every sub-query succeeded, and rejected as soon
\* as one has failed.
C5_GetStatistics ==
    \A c \in Callers :
        call[c].op = "getStatistics" =>
            LET perPartition == [i \in 1..Len(timePartitions) |->
                    SeqBag(MapItems(Query(items,
                        queryParams(call[c].topic, timePartitions[i].name,
                                    call[c].startTime, call[c].endTime))))]
            IN  /\ (\E i \in DOMAIN subs[c] : subs[c][i].st = "err")
                      => outcome[c].st = "rejected"
                /\ outcome[c].st = "fulfilled"
                      => /\ DOMAIN subs[c] = 1..Len(timePartitions)
                         /\ \A i \in DOMAIN subs[c] : subs[c][i].st = "ok"
                         /\ ~dirty[c] =>
                               SeqBag(outcome[c].val) = BagSum(Len(timePartitions), perPartition)

\* getStatistics answered with cells of both partitions
C5_Witness ==
    \E c \in Callers :
        /\ call[c].op = "getStatistics"
        /\ outcome[c].st = "fulfilled"
        /\ ~dirty[c]
        /\ Len(outcome[c].val) = 3
        /\ \E j, k \in 1..3 : /\ outcome[c].val[j].period = Minute
                              /\ outcome[c].val[k].period = Hour

\* C6 (as claimed): getStatisticsPeriod with a period that is not configured
\* fails with a ConfigError and sends no query.
C6_UnknownPeriod ==
    \A c \in Callers :
        ( /\ call[c].op = "getStatisticsPeriod"
          /\ Configured(call[c].period) = {}
          /\ pc[c] = "done" )
        => /\ outcome[c] = Rejected("ConfigError")
           /\ subs[c] = <<>>

(* ------------------------------------------------------------------ *)
(* Claims about the readiness gate                                      *)
(* ------------------------------------------------------------------ *)
StoreOps == {"addStatistic", "getStatisticsPeriod", "getStatistics"}

\* C7 (as claimed): an update or query is sent to the store only when the
\* state is INITIALIZED; if provisioning fails, with whatever value, every
\* addStatistic / getStatisticsPeriod / getStatistics call is rejected and
\* nothing is sent.
C7_GateSafety ==
    /\ \A m \in sent : m.state = "INITIALIZED"
    /\ state = "FAIL" =>
          /\ sent = {}
          /\ \A c \in Callers :
                (call[c].op \in StoreOps /\ outcome[c].st # "pending")
                    => outcome[c].st = "rejected"

\* C8 (as claimed): if provisioning fails with error E, every onReady() call
\* is rejected with E, those pending at the failure and those made later.
C8_OnReadyError ==
    state = "FAIL" =>
        \A c \in Callers : call[c].op = "onReady" => gate[c] = Rejected(provErr)

\* the outcome the state stands for
GateOutcome(st) ==
    IF st = "INITIALIZED" THEN "fulfilled"
    ELSE IF st = "FAIL" THEN "rejected"
    ELSE "pending"

\* C9 (as claimed): the state leaves INITIALIZING once and then stays; the
\* waiters queued while INITIALIZING are all settled at that step, once each,
\* fulfilled iff the state became INITIALIZED and rejected iff it became FAIL;
\* the queue is empty in every other state; a later onReady() has the same
\* outcome.
C9_SettleOnce ==
    [][ /\ state # "INITIALIZING" => state' = state
        /\ state' # "INITIALIZING" => onReadyPromises' = <<>>
        /\ \A c \in Callers :
              /\ settles'[c] <= 1
              /\ gate'[c].st # "none" => gate'[c].st = GateOutcome(state') ]_vars

(* ------------------------------------------------------------------ *)
(* FairSpec: the instance from construction on, each caller making one  *)
(* call. Every scheduled continuation runs, every store call and timer  *)
(* comes back; the store's own changes to the table are not forced.     *)
(* ------------------------------------------------------------------ *)
Chain ==
    \/ StartProvisioning \/ DescribeOk \/ DescribeFail \/ CreateOk \/ CreateFail
    \/ PollOk \/ PollFail \/ PollWake \/ Initialized \/ Failed

Progress(c) ==
    \/ GateRejected(c) \/ OnReadyDone(c)
    \/ AddStart(c) \/ UpdateFail(c) \/ UpdateOk(c)
    \/ PeriodStart(c) \/ AllStart(c)
    \/ \E i \in 1..Len(timePartitions) : SubSend(c, i)
    \/ \E i \in 1..Len(timePartitions) : SubRefused(c, i)
    \/ \E i \in 1..Len(timePartitions) : QueryFail(c, i)
    \/ \E i \in 1..Len(timePartitions) : QueryOk(c, i)

NextLive ==
    \/ Provision
    \/ \E c \in Callers :
          \/ BeginOnReady(c)
          \/ BeginAdd(c, Topic1, 90, <<>>)
          \/ BeginGetPeriod(c, Topic1, Minute, 0, 119)
          \/ BeginGetAll(c, Topic1, 0, 119)
          \/ Progress(c)

FairSpec ==
    /\ Init /\ [][NextLive]_vars
    /\ WF_vars(Chain)
    /\ \A c \in Callers : WF_vars(Progress(c))

\* C10: provisioning terminates, so the state leaves INITIALIZING, and every
\* onReady / addStatistic / getStatistics* call begun is eventually settled.
C10_ReadinessLive ==
    /\ <>(state \in {"INITIALIZED", "FAIL"})
    /\ \A c \in Callers : (outcome[c].st = "pending") ~> (outcome[c].st \in {"fulfilled", "rejected"})

\* the poll loop gave up at its deadline, the table still being created, and
\* a caller that waited at the gate was rejected
C10_Witness ==
    /\ state = "FAIL"
    /\ provErr = "TimedOutError"
    /\ tableStatus = "CREATING"
    /\ \E c \in Callers : settles[c] = 1 /\ outcome[c] = Rejected("TimedOutError")

(* ------------------------------------------------------------------ *)
(* Claims about the effects of addStatistic                             *)
(* ------------------------------------------------------------------ *)
\* the update in flight for caller c is applied by the store in this step
Applied(c) ==
    items' = UpdateItem(items, updateParams(call[c].topic, call[c].timestamp,
                                            call[c].amount, timePartitions[idx[c]]))

\* C11: within one addStatistic call the updates are sent in partition-list
\* order, the next one only in the step in which the one before is applied;
\* when an update fails the call is rejected with the store's error, its
\* position does not move again (nothing later is sent, nothing is retried)
\* and the items stay as they are (no rollback).
C11_SequentialUpdates ==
    [][\A c \in Callers :
          call[c].op = "addStatistic" =>
             /\ idx'[c] # idx[c] =>
                   \/ pc[c] = "gate" /\ idx[c] = 0 /\ idx'[c] = 1
                   \/ pc[c] = "update" /\ idx'[c] = idx[c] + 1 /\ Applied(c)
                   \/ pc[c] = "done" /\ pc'[c] = "idle"
             /\ (pc[c] = "update" /\ pc'[c] = "done" /\ outcome'[c].st = "rejected") =>
                   /\ outcome'[c] = Rejected("StoreError")
                   /\ idx'[c] = idx[c]
                   /\ items' = items
             /\ (pc[c] = "done" /\ pc'[c] = "done") => idx'[c] = idx[c] ]_vars

\* an addStatistic rejected at its second update, the first one's increment
\* still stored and the second one's cell never written
C11_Witness ==
    \E c \in Callers :
        /\ call[c].op = "addStatistic"
        /\ pc[c] = "done"
        /\ outcome[c] = Rejected("StoreError")
        /\ idx[c] = 2
        /\ addLog = SetToBag({[topic |-> call[c].topic, timestamp |-> call[c].timestamp,
                               amount |-> call[c].amount]})
        /\ StoredCount(createTopicPeriod(call[c].topic, Minute),
                       TimePartitionKey(call[c].timestamp, timePartitions[1])) = Increment(call[c].amount)
        /\ \A it \in items : it.topic_period = createTopicPeriod(call[c].topic, Minute)

\* the count a table holds in a cell, 0 when the cell does not exist
CountOf(table, topic_period, key) ==
    LET cell == {it \in table : it.topic_period = topic_period /\ it.time_partition = key}
    IN  IF cell = {} THEN 0 ELSE (CHOOSE it \in cell : TRUE).count

\* caller c's update in flight completes successfully in this step
UpdateDone(c) ==
    /\ call[c].op = "addStatistic"
    /\ pc[c] = "update"
    /\ \/ idx'[c] = idx[c] + 1
       \/ pc'[c] = "done" /\ outcome'[c].st = "fulfilled"

\* C12 (as claimed): each successful update of addStatistic(topic, t, amount)
\* raises the count of the cell it writes by exactly amount, 0 included, and
\* by 1 when amount is omitted; a cell that did not exist starts from 0.
C12_IncrementByAmount ==
    [][\A c \in Callers :
          UpdateDone(c) =>
             LET u == updateParams(call[c].topic, call[c].timestamp, call[c].amount,
                                   timePartitions[idx[c]])
             IN  CountOf(items', u.topic_period, u.time_partition)
                    = CountOf(items, u.topic_period, u.time_partition) + Asked(call[c].amount) ]_vars

\* what does hold: the count rises by amount when amount is not 0, and by 1
\* when it is 0 or omitted
IncrementBySent ==
    [][\A c \in Callers :
          UpdateDone(c) =>
             LET u == updateParams(call[c].topic, call[c].timestamp, call[c].amount,
                                   timePartitions[idx[c]])
             IN  CountOf(items', u.topic_period, u.time_partition)
                    = CountOf(items, u.topic_period, u.time_partition)
                      + (IF call[c].amount \in {<<>>, <<0>>} THEN 1 ELSE call[c].amount[1]) ]_vars

(* ------------------------------------------------------------------ *)
(* Claims about provisioning                                            *)
(* ------------------------------------------------------------------ *)
\* C13 (as claimed): whenever the state is INITIALIZED the table exists and
\* is ACTIVE, whether the constructor created it or found it, in any status.
C13_ReadyMeansActive ==
    state = "INITIALIZED" => tableStatus = "ACTIVE"

TerminalStatuses == {"DELETING", "INACCESSIBLE_ENCRYPTION_CREDENTIALS"}

\* C14: waitUntilTableExists returns normally only from a poll sent before
\* the deadline and answered ACTIVE; a poll that throws (it must when the
\* table is absent) leads to the sleep and is sent again one poll interval
\* later, while the deadline has not passed; a poll answered DELETING or
\* INACCESSIBLE_ENCRYPTION_CREDENTIALS, or a deadline passed, ends the wait
\* with its timeout error; and a rejected chain makes the state FAIL.
C14_PollOutcome ==
    [][ /\ (provPc = "poll" /\ provPc' = "fulfilled") =>
              tableStatus = "ACTIVE" /\ now < endTime
        /\ (provPc = "poll" /\ tableStatus = "ABSENT" /\ provPc' # provPc) =>
              provPc' = "sleep" /\ provErr' = provErr
        /\ (PollOk /\ tableStatus \in TerminalStatuses) =>
              provPc' = "rejected" /\ provErr' = "TimedOutError"
        /\ (provPc = "poll" /\ provPc' = "rejected") =>
              tableStatus \in TerminalStatuses /\ provErr' = "TimedOutError"
        /\ (provPc = "sleep" /\ provPc' = "poll") =>
              now' = now + PollIntervalMs /\ now' < endTime
        /\ (provPc = "sleep" /\ provPc' # provPc /\ provPc' # "poll") =>
              /\ provPc' = "rejected" /\ provErr' = "TimedOutError"
              /\ now + PollIntervalMs >= endTime
        /\ (provPc = "rejected" /\ provPc' # provPc) =>
              state' = "FAIL" /\ provPc' = "done"
        /\ (provPc \in {"poll", "sleep"}) => state = "INITIALIZING" ]_vars

\* the wait ended on a table that lost its encryption key, and the instance
\* has failed with the wait's error
C14_Witness ==
    /\ state = "FAIL"
    /\ provErr = "TimedOutError"
    /\ tableStatus = "INACCESSIBLE_ENCRYPTION_CREDENTIALS"

(* ------------------------------------------------------------------ *)
(* SpecKeys: a ready instance, written and read under topics with and   *)
(* without the separator character                                      *)
(* ------------------------------------------------------------------ *)
KeyTopics == {Topic1, TopicHash}

NextKeys ==
    \E c \in Callers :
       \/ \E topic \in KeyTopics : BeginAdd(c, topic, 90, <<>>)
       \/ \E topic \in KeyTopics, p \in {Minute, Hour} : BeginGetPeriod(c, topic, p, 0, 119)
       \/ AddStart(c) \/ UpdateOk(c) \/ UpdateFail(c)
       \/ PeriodStart(c)
       \/ QueryOk(c, 1)
       \/ QueryFail(c, 1)
       \/ Return(c)

SpecKeys == InitReady /\ [][NextKeys]_vars

\* every Statistic of an answered getStatisticsPeriod carries the topic and
\* the period of the call, for the calls whose topic is in the given set
RoundTrip(topics) ==
    \A c \in Callers :
        ( /\ call[c].op = "getStatisticsPeriod"
          /\ call[c].topic \in topics
          /\ outcome[c].st = "fulfilled" )
        => \A j \in 1..Len(outcome[c].val) :
              /\ outcome[c].val[j].topic = call[c].topic
              /\ outcome[c].val[j].period = call[c].period

\* C15 (as claimed): for every topic, those holding the separator included,
\* and every configured period, each Statistic returned has the topic and
\* the period passed in; and different (topic, period) pairs have different
\* hash keys.
C15_KeyRoundTrip ==
    /\ RoundTrip(KeyTopics)
    /\ \A t1, t2 \in KeyTopics : \A i1, i2 \in 1..Len(timePartitions) :
          createTopicPeriod(t1, timePartitions[i1].name)
                = createTopicPeriod(t2, timePartitions[i2].name)
             => (t1 = t2 /\ i1 = i2)

\* what does hold: the round trip for topics without the separator
RoundTripPlainTopics == RoundTrip({Topic1})

(* ------------------------------------------------------------------ *)
(* Frame of the operations on the table                                 *)
(* ------------------------------------------------------------------ *)
\* a step changes the items only by completing one update of an
\* addStatistic call, and then only the cell (topic#name, Key(t, partition))
Frame(Key(_, _)) ==
    /\ \A c \in Callers :
          UpdateDone(c) =>
             LET partition == timePartitions[idx[c]]
                 tp == createTopicPeriod(call[c].topic, partition.name)
                 key == Key(call[c].timestamp, partition)
             IN  /\ \A it \in items \cup items' :
                       (it.topic_period # tp \/ it.time_partition # key)
                          => (it \in items <=> it \in items')
                 /\ \E it \in items' \ items :
                       it.topic_period = tp /\ it.time_partition = key
    /\ (\A c \in Callers : ~UpdateDone(c)) => items' = items

\* the start of the bucket of a timestamp in epoch seconds
BucketStart(t, partition) == Floor(t, partition.interval)

\* C16 (as claimed): each successful update of addStatistic(topic, t, amount)
\* changes exactly the cell keyed (topic#partitionName, bucket start of t),
\* t in epoch seconds, and no other cell; no other step of any operation,
\* the reads included, creates, modifies or deletes a cell.
C16_Frame == [][Frame(BucketStart)]_vars

\* what does hold: the same frame around the cell whose key is the one the
\* code computes, the truncation of t read as milliseconds
FrameAsWritten == [][Frame(TimePartitionKey)]_vars

====
